---- MODULE Spec2Model ----
(***************************************************************************)
(* Model of src/image-updater.js: the periodic reconciliation pass         *)
(* (checkForUpdates), drift detection (checkIfImageNeedsUpdate,            *)
(* getRemoteImageId) and the container replacement with rollback           *)
(* (updateImage, containerManagement), run against a Docker engine whose   *)
(* calls may each fail.                                                    *)
(*                                                                         *)
(* One action = one turn of the event loop: an engine call returning plus  *)
(* the JavaScript that runs until the next await.  The scheduler calls     *)
(* checkForUpdates at every tick whatever the earlier calls are doing, so  *)
(* the calls (passes) interleave turn by turn.  Container names are token  *)
(* sequences, so that the leading "/" of the listing and the "-old-temp"   *)
(* suffix are real string operations: "/web" is <<"/", "web">>,            *)
(* "web-old-temp" is <<"web", "-old-temp">>.                               *)
(***************************************************************************)
EXTENDS Naturals, Sequences, FiniteSets, TLC

VARIABLES
    dockerContainers, \* engine: container id -> container
    images,        \* engine: image reference -> id of the local image, or NoImage
    nextId,        \* engine: id given to the next created container
    pendingStart,  \* newC.start() promises not yet settled (line 85, never awaited)
    unhandled,     \* a promise rejected with nobody awaiting it
    faults,        \* engine failures so far
    passNo,        \* number of cron ticks fired so far; pass p is the p-th call
    pc,            \* per pass: where it is suspended, the engine call it awaits
    outcome,       \* per pass: how the promise of its checkForUpdates settled
    containers,    \* per pass: containers (result of listContainers)
    idx,           \* per pass: position of the for..of loop in containers
    chk,           \* per pass: the locals of checkIfImageNeedsUpdate
    evals,         \* per pass: one record per call of checkIfImageNeedsUpdate
    log,           \* per pass: its engine calls, in order, with their results
    upd            \* per pass: the locals of updateImage and what happened

vars == <<dockerContainers, images, nextId, pendingStart, unhandled, faults, passNo,
          pc, outcome, containers, idx, chk, evals, log, upd>>

----------------------------------------------------------------------------
(* Bounds *)

\* cron ticks in a behaviour
MaxPasses == 2

\* engine calls in a behaviour answered with an error that the containers and
\* images do not explain: daemon failure, timeout, registry error (401, 404, other)
MaxFaults == 2

----------------------------------------------------------------------------
(* Values *)

NoImage == "none"
ImageIds == {"sha:AAA", "sha:BBB"}
Refs == {"app:latest", "db:latest"}
NoPorts == "no-ports"
NoBinds == "no-binds"
Passes == 1..MaxPasses

\* line 191: what the callback of docker.pull is called with: a stream, or an
\* error of status 404, 401 or another
PullAnswers == {"stream", "notFound", "authRequired", "error"}

\* line 206: how the stream ends: an image was downloaded, nothing was, or an error
StreamOutcomes == {"updated", "unchanged", "error"}

\* getRemoteImageId: the ways it settles
PullOutcomes == (PullAnswers \ {"stream"}) \cup StreamOutcomes

Mutations == {"rename", "create", "start", "stop", "remove"}

\* const oldContainerName = `${targetContainerName}-old-temp`
TempName(targetContainerName) == targetContainerName \o <<"-old-temp">>

\* .replace(/^\//, '')
StripSlash(s) == IF s # <<>> /\ Head(s) = "/" THEN Tail(s) ELSE s

\* const containerName = containerInfo.Names[0].replace(/^\//, '')
StrippedName(containerInfo) == StripSlash(containerInfo.Names[1])

\* object spread: the keys of b override those of a
Merge(a, b) ==
    [k \in (DOMAIN a) \cup (DOMAIN b) |-> IF k \in DOMAIN b THEN b[k] ELSE a[k]]

Max(S) == CHOOSE m \in S : \A x \in S : x <= m

RECURSIVE Descending(_)
Descending(S) == IF S = {} THEN <<>>
                 ELSE <<Max(S)>> \o Descending(S \ {Max(S)})

----------------------------------------------------------------------------
(* The engine, as dockerode shows it *)

ByName(n) == {i \in DOMAIN dockerContainers : dockerContainers[i].Name = n}
IdOf(n) == CHOOSE i \in ByName(n) : TRUE

\* one element of docker.listContainers()
ListEntry(i) ==
    [Id |-> i,
     Names |-> << <<"/">> \o dockerContainers[i].Name >>,
     Image |-> dockerContainers[i].Image,
     ImageID |-> dockerContainers[i].ImageId,
     Labels |-> dockerContainers[i].Labels,
     State |-> "running",
     Mounts |-> dockerContainers[i].HostConfig.Binds,
     HostConfig |-> [NetworkMode |-> "default"]]

\* docker.listContainers(): the running containers, newest first
Listing ==
    LET ids == Descending({i \in DOMAIN dockerContainers : dockerContainers[i].Running})
    IN  [k \in 1..Len(ids) |-> ListEntry(ids[k])]

\* container.inspect()
InspectData(i) ==
    [Id |-> i,
     Name |-> <<"/">> \o dockerContainers[i].Name,
     Image |-> dockerContainers[i].ImageId,
     Config |-> [Image |-> dockerContainers[i].Image,
                 Env |-> dockerContainers[i].Env,
                 Labels |-> dockerContainers[i].Labels],
     HostConfig |-> dockerContainers[i].HostConfig,
     NetworkSettings |->
         [Ports |-> IF dockerContainers[i].Running
                    THEN dockerContainers[i].HostConfig.PortBindings ELSE NoPorts]]

Field(r, k, default) == IF k \in DOMAIN r THEN r[k] ELSE default

\* the engine names a container itself when the payload gives no name
PayloadName(payload) == Field(payload, "name", <<"generated">>)

\* docker.createContainer(payload): the container the engine makes of it
Created(payload) ==
    [Name |-> PayloadName(payload),
     Image |-> payload.Image,
     ImageId |-> images[payload.Image],
     Running |-> FALSE,
     Env |-> Field(payload, "Env", "no-env"),
     Labels |-> Field(payload, "Labels", "no-labels"),
     HostConfig |->
         [PortBindings |-> Field(payload.HostConfig, "PortBindings", NoPorts),
          Binds |-> Field(payload.HostConfig, "Binds", NoBinds)]]

----------------------------------------------------------------------------
(* Pure parts of the program *)

\* line 163: localImageId && containerImageId !== localImageId
NeedsUpdateLoose(localImageId, containerImageId) ==
    localImageId # NoImage \/ containerImageId # localImageId
NeedsUpdate(localImageId, containerImageId) ==
    localImageId # NoImage /\ containerImageId # localImageId

\* lines 171-174: the outer catch of checkIfImageNeedsUpdate returns true
VerdictOnError == TRUE

\* lines 192-202 and 206-209: the pull promise rejects
PullRejectsNever(out) == FALSE
PullRejects(out) == out = "error"

\* lines 70-78: the creation payload
CreatePayload(containerInfo, containerData, imageName, targetContainerName) ==
    Merge(Merge(Merge(containerInfo, containerData.Config),
                [Image |-> imageName, name |-> targetContainerName]),
          [HostConfig |-> [PortBindings |-> containerData.NetworkSettings.Ports]])

\* lines 94-97: a failure between the first rename and the remove lands in catch
OnStepFailed == "rollback"

\* line 122: return updateImage(...) leaves the loop whatever updateImage does
AfterUpdateContinue(l, i) == IF i < Len(l) THEN "chkInspect" ELSE "idle"
AfterUpdate(l, i) == "idle"

----------------------------------------------------------------------------
(* Records of a pass *)

NoChk == [containerImageId |-> NoImage, containerImageName |-> "none", pull |-> "none"]

NoData == [Id |-> 0]
NoPayload == [name |-> <<>>]

\* updateImage before it has run
NoFrame ==
    [targetContainerName |-> <<>>, oldContainerName |-> <<>>, imageName |-> "none",
     containerData |-> NoData, createContainerPayload |-> NoPayload, newC |-> 0,
     failed |-> {}, ended |-> FALSE, start |-> "none"]

Call(op, arg, by, ok) == [op |-> op, arg |-> arg, by |-> by, ok |-> ok]

\* the containerName the loop of pass p is at
containerName(p) == StrippedName(containers[p][idx[p]])

\* the frame of updateImage in pass p
U(p) == upd[p]

\* the passes suspended at an await
Active == {p \in Passes : pc[p] # "idle"}

InitContainers ==
    (1 :> [Name |-> <<"web">>, Image |-> "app:latest", ImageId |-> "sha:AAA",
           Running |-> TRUE, Env |-> "ENV=web", Labels |-> "app=web",
           HostConfig |-> [PortBindings |-> "80:8080", Binds |-> "/srv:/data"]])
    @@
    (2 :> [Name |-> <<"db">>, Image |-> "db:latest", ImageId |-> "sha:AAA",
           Running |-> TRUE, Env |-> "ENV=db", Labels |-> "app=db",
           HostConfig |-> [PortBindings |-> NoPorts, Binds |-> "/var/db:/db"]])

Init ==
    /\ dockerContainers = InitContainers
    /\ images \in {f \in [Refs -> ImageIds \cup {NoImage}] : f["db:latest"] # NoImage}
    /\ nextId = 3
    /\ pendingStart = {}
    /\ unhandled = FALSE
    /\ passNo = 0
    /\ faults = 0
    /\ pc = [p \in Passes |-> "idle"]
    /\ outcome = [p \in Passes |-> "none"]
    /\ containers = [p \in Passes |-> <<>>]
    /\ idx = [p \in Passes |-> 0]
    /\ chk = [p \in Passes |-> NoChk]
    /\ evals = [p \in Passes |-> <<>>]
    /\ log = [p \in Passes |-> <<>>]
    /\ upd = [p \in Passes |-> NoFrame]

----------------------------------------------------------------------------
(* What the engine accepts *)

\* container.rename({ name: to }): a container named `from`, none named `to`
CanRename(from, to) == ByName(from) # {} /\ ByName(to) = {}

\* docker.createContainer(payload): the name is free and the image is local
CanCreate(payload) ==
    ByName(PayloadName(payload)) = {} /\ images[payload.Image] # NoImage

\* container.stop(): the container exists and runs
CanStop(n) == ByName(n) # {} /\ dockerContainers[IdOf(n)].Running

\* newC.start(): the container exists and does not run
CanStart(i) == i \in DOMAIN dockerContainers /\ ~dockerContainers[i].Running

\* container.remove(): the container exists and does not run
CanRemove(n) == ByName(n) # {} /\ ~dockerContainers[IdOf(n)].Running

\* the answers to a call: one the engine's state refuses is an error; one it
\* accepts succeeds, or fails for a reason of the engine's own (daemon down,
\* timeout) while the budget of such failures lasts
Answers(accepted) == IF accepted /\ faults < MaxFaults THEN BOOLEAN ELSE {TRUE}

\* an engine failure uses up the budget
Fault(ok) == /\ ~ok => faults < MaxFaults
             /\ faults' = IF ok THEN faults ELSE faults + 1

----------------------------------------------------------------------------
(* checkForUpdates and checkIfImageNeedsUpdate *)

\* lines 222-230 and 113-115: a cron tick calls checkForUpdates, whatever the
\* earlier calls are doing; it runs to its first await, docker.listContainers()
Tick ==
    /\ passNo < MaxPasses
    /\ passNo' = passNo + 1
    /\ pc' = [pc EXCEPT ![passNo + 1] = "list"]
    /\ outcome' = [outcome EXCEPT ![passNo + 1] = "pending"]
    /\ UNCHANGED <<dockerContainers, images, nextId, pendingStart, unhandled, faults,
                   containers, idx, chk, evals, log, upd>>

\* lines 115-130: listContainers returns; an error is caught at line 127
ListContainers(p) ==
    /\ pc[p] = "list"
    /\ \E ok \in Answers(TRUE) :
          /\ Fault(ok)
          /\ log' = [log EXCEPT ![p] = Append(@, Call("list", <<>>, "checkForUpdates", ok))]
          /\ IF ok /\ Len(Listing) > 0
             THEN /\ containers' = [containers EXCEPT ![p] = Listing]
                  /\ idx' = [idx EXCEPT ![p] = 1]
                  /\ pc' = [pc EXCEPT ![p] = "chkInspect"]
                  /\ UNCHANGED outcome
             ELSE /\ pc' = [pc EXCEPT ![p] = "idle"]
                  /\ outcome' = [outcome EXCEPT ![p] = "resolved"]
                  /\ UNCHANGED <<containers, idx>>
    /\ UNCHANGED <<dockerContainers, images, nextId, pendingStart, unhandled,
                   passNo, chk, evals, upd>>

\* lines 120-126: checkIfImageNeedsUpdate returned isUpdated; on true updateImage
\* is called and runs to its first await (line 57), on false the loop goes on
Decide(p, isUpdated, rec) ==
    /\ evals' = [evals EXCEPT ![p] = Append(@, rec)]
    /\ chk' = [chk EXCEPT ![p] = NoChk]
    /\ IF isUpdated
       THEN pc' = [pc EXCEPT ![p] = "updInspect"] /\ UNCHANGED <<idx, outcome>>
       ELSE IF idx[p] < Len(containers[p])
            THEN /\ pc' = [pc EXCEPT ![p] = "chkInspect"]
                 /\ idx' = [idx EXCEPT ![p] = @ + 1]
                 /\ UNCHANGED outcome
            ELSE /\ pc' = [pc EXCEPT ![p] = "idle"]
                 /\ outcome' = [outcome EXCEPT ![p] = "resolved"]
                 /\ UNCHANGED idx

Eval(p, inspectOk, pull, imgRes, engineImage, containerImageId, isUpdated) ==
    [name |-> containerName(p), inspectOk |-> inspectOk, pull |-> pull, imgRes |-> imgRes,
     engineImage |-> engineImage, containerImageId |-> containerImageId, isUpdated |-> isUpdated]

\* lines 145-148, 171-174: container.inspect() of checkIfImageNeedsUpdate
ChkInspect(p) ==
    /\ pc[p] = "chkInspect"
    /\ \E ok \in Answers(ByName(containerName(p)) # {}) :
          LET found == ok /\ ByName(containerName(p)) # {}
              data == InspectData(IdOf(containerName(p)))
          IN  /\ Fault(ok)
              /\ log' = [log EXCEPT ![p] = Append(@, Call("inspect", containerName(p),
                                                       "checkIfImageNeedsUpdate", found))]
              /\ IF found
                 THEN /\ chk' = [chk EXCEPT ![p] =
                                    [containerImageId |-> data.Image,
                                     containerImageName |-> data.Config.Image,
                                     pull |-> "none"]]
                      /\ pc' = [pc EXCEPT ![p] = "pull"]
                      /\ UNCHANGED <<evals, idx, outcome>>
                 ELSE Decide(p, VerdictOnError,
                             Eval(p, FALSE, "none", "none", NoImage, NoImage,
                                  VerdictOnError))
    /\ UNCHANGED <<dockerContainers, images, nextId, pendingStart, unhandled,
                   passNo, containers, upd>>

\* lines 151, 196, 199, 201, 208: getRemoteImageId settles as `out`: rejected, the
\* outer catch of checkIfImageNeedsUpdate returns true; resolved, line 155 is next
PullSettles(p, out) ==
    /\ log' = [log EXCEPT ![p] = Append(@, Call("pull", <<chk[p].containerImageName>>,
                                                 "getRemoteImageId", ~PullRejects(out)))]
    /\ IF PullRejects(out)
       THEN Decide(p, VerdictOnError,
                   Eval(p, TRUE, out, "none", images[chk[p].containerImageName],
                        chk[p].containerImageId, VerdictOnError))
       ELSE /\ chk' = [chk EXCEPT ![p].pull = out]
            /\ pc' = [pc EXCEPT ![p] = "imgInspect"]
            /\ UNCHANGED <<evals, idx, outcome>>

\* lines 191-204: the callback of docker.pull: an error settles the promise, a
\* stream is handed to followProgress and the promise stays pending
Pull(p) ==
    /\ pc[p] = "pull"
    /\ \E ans \in PullAnswers :
          /\ Fault(ans = "stream")
          /\ IF ans = "stream"
             THEN /\ pc' = [pc EXCEPT ![p] = "followProgress"]
                  /\ UNCHANGED <<chk, evals, idx, outcome, log>>
             ELSE PullSettles(p, ans)
    /\ UNCHANGED <<dockerContainers, images, nextId, pendingStart, unhandled,
                   passNo, containers, upd>>

\* lines 206-213: the stream ended; a pull that downloaded has changed the local
\* image under the reference
onFinished(p) ==
    /\ pc[p] = "followProgress"
    /\ \E out \in StreamOutcomes, new \in ImageIds :
          /\ out = "updated" => new # images[chk[p].containerImageName]
          /\ out = "unchanged" => images[chk[p].containerImageName] # NoImage
          /\ out # "updated" => new = "sha:AAA"
          /\ Fault(~PullRejects(out))
          /\ images' = IF out = "updated"
                       THEN [images EXCEPT ![chk[p].containerImageName] = new]
                       ELSE images
          /\ PullSettles(p, out)
    /\ UNCHANGED <<dockerContainers, nextId, pendingStart, unhandled, passNo,
                   containers, upd>>

\* lines 153-170: docker.getImage(name).inspect() and the comparison
ImgInspect(p) ==
    /\ pc[p] = "imgInspect"
    /\ \E ok \in Answers(TRUE) :
          LET ref == chk[p].containerImageName
              res == IF ~ok THEN "error"
                     ELSE IF images[ref] = NoImage THEN "notFound" ELSE "ok"
              localImageId == IF res = "ok" THEN images[ref] ELSE NoImage
              isUpdated == NeedsUpdate(localImageId, chk[p].containerImageId)
          IN  /\ Fault(ok)
              /\ log' = [log EXCEPT ![p] = Append(@, Call("imageInspect", <<ref>>,
                                                       "checkIfImageNeedsUpdate", res = "ok"))]
              /\ Decide(p, isUpdated,
                        Eval(p, TRUE, chk[p].pull, res, images[ref],
                             chk[p].containerImageId, isUpdated))
    /\ UNCHANGED <<dockerContainers, images, nextId, pendingStart, unhandled,
                   passNo, containers, upd>>

----------------------------------------------------------------------------
(* updateImage *)

UpdatePcs == {"updInspect", "rename", "create", "stop", "remove", "rollback"}

SetFrame(p, f) == upd' = [upd EXCEPT ![p] = f]

\* updateImage goes on to `next`; when that is outside updateImage its promise
\* has settled as `res`, and with it (line 122) the promise of checkForUpdates
UpdStep(p, next, res, f) ==
    /\ SetFrame(p, [f EXCEPT !.ended = next \notin UpdatePcs])
    /\ pc' = [pc EXCEPT ![p] = next]
    /\ idx' = [idx EXCEPT ![p] = IF next = "chkInspect" THEN @ + 1 ELSE @]
    /\ outcome' = [outcome EXCEPT ![p] = IF next = "idle" THEN res ELSE @]

\* the catch of line 94
Failed(p, op) ==
    UpdStep(p, OnStepFailed, "resolved", [U(p) EXCEPT !.failed = @ \cup {op}])

\* lines 56-62: oldContainer.inspect(), outside the try: its error rejects
\* updateImage, and line 122 hands that rejection to the caller of checkForUpdates
UpdInspect(p) ==
    /\ pc[p] = "updInspect"
    /\ \E ok \in Answers(ByName(containerName(p)) # {}) :
          LET found == ok /\ ByName(containerName(p)) # {}
              containerData == InspectData(IdOf(containerName(p)))
              f == [NoFrame EXCEPT !.targetContainerName = containerName(p),
                                   !.oldContainerName = TempName(containerName(p))]
          IN  /\ Fault(ok)
              /\ log' = [log EXCEPT ![p] = Append(@, Call("inspect", containerName(p),
                                                       "updateImage", found))]
              /\ IF found
                 THEN UpdStep(p, "rename", "resolved",
                              [f EXCEPT !.containerData = containerData,
                                        !.imageName = containerData.Config.Image])
                 ELSE UpdStep(p, "idle", "rejected",
                              [f EXCEPT !.failed = {"inspect"}])
    /\ UNCHANGED <<dockerContainers, images, nextId, pendingStart, unhandled,
                   passNo, containers, chk, evals>>

\* lines 64-78 and 33-35: rename the target to oldContainerName, then build the
\* payload
Rename(p) ==
    /\ pc[p] = "rename"
    /\ \E ok \in Answers(CanRename(U(p).targetContainerName, U(p).oldContainerName)) :
          LET done == ok /\ CanRename(U(p).targetContainerName, U(p).oldContainerName)
          IN  /\ Fault(ok)
              /\ log' = [log EXCEPT ![p] = Append(@, Call("rename", U(p).targetContainerName,
                                                       "updateImage", done))]
              /\ IF done
                 THEN /\ dockerContainers' = [dockerContainers EXCEPT
                              ![IdOf(U(p).targetContainerName)].Name = U(p).oldContainerName]
                      /\ UpdStep(p, "create", "resolved",
                                 [U(p) EXCEPT !.createContainerPayload =
                                      CreatePayload(containers[p][idx[p]], U(p).containerData,
                                                    U(p).imageName, U(p).targetContainerName)])
                 ELSE /\ Failed(p, "rename")
                      /\ UNCHANGED dockerContainers
    /\ UNCHANGED <<images, nextId, pendingStart, unhandled, passNo,
                   containers, chk, evals>>

\* line 79: docker.createContainer(createContainerPayload)
Create(p) ==
    /\ pc[p] = "create"
    /\ \E ok \in Answers(CanCreate(U(p).createContainerPayload)) :
          LET payload == U(p).createContainerPayload
              done == ok /\ CanCreate(payload)
          IN  /\ Fault(ok)
              /\ log' = [log EXCEPT ![p] = Append(@, Call("create", PayloadName(payload),
                                                       "updateImage", done))]
              /\ IF done
                 THEN /\ dockerContainers' = dockerContainers @@ (nextId :> Created(payload))
                      /\ nextId' = nextId + 1
                      /\ UpdStep(p, "stop", "resolved", [U(p) EXCEPT !.newC = nextId])
                 ELSE /\ Failed(p, "create")
                      /\ UNCHANGED <<dockerContainers, nextId>>
    /\ UNCHANGED <<images, pendingStart, unhandled, passNo, containers,
                   chk, evals>>

\* lines 84-85: newC.start() is reached only when the awaited stop did not throw
StartIssuedAlways(stopped) == TRUE
StartIssued(stopped) == stopped

\* lines 84-85 and 29-31: stop the old container, then newC.start() without await
Stop(p) ==
    /\ pc[p] = "stop"
    /\ \E ok \in Answers(CanStop(U(p).oldContainerName)) :
          LET done == ok /\ CanStop(U(p).oldContainerName)
              issued == StartIssued(done)
              f == [U(p) EXCEPT !.start = IF issued THEN "pending" ELSE @]
          IN  /\ Fault(ok)
              /\ dockerContainers' =
                    IF done
                    THEN [dockerContainers EXCEPT
                              ![IdOf(U(p).oldContainerName)].Running = FALSE]
                    ELSE dockerContainers
              /\ pendingStart' =
                    IF issued
                    THEN pendingStart \cup {[id |-> U(p).newC, pass |-> p]}
                    ELSE pendingStart
              \* the start is logged as issued; its result comes later
              /\ log' = [log EXCEPT ![p] =
                            @ \o <<Call("stop", U(p).oldContainerName, "updateImage", done)>>
                              \o (IF issued
                                  THEN <<Call("start", U(p).targetContainerName,
                                              "updateImage", TRUE)>>
                                  ELSE <<>>)]
              /\ IF done
                 THEN UpdStep(p, "remove", "resolved", f)
                 ELSE UpdStep(p, OnStepFailed, "resolved",
                              [f EXCEPT !.failed = @ \cup {"stop"}])
    /\ UNCHANGED <<images, nextId, unhandled, passNo, containers, chk, evals>>

\* line 85: the promise of newC.start() settles; nothing awaits or catches it
StartSettles ==
    /\ \E s \in pendingStart :
       \E ok \in Answers(CanStart(s.id)) :
          LET done == ok /\ CanStart(s.id)
          IN  /\ Fault(ok)
              /\ dockerContainers' = IF done
                               THEN [dockerContainers EXCEPT ![s.id].Running = TRUE]
                               ELSE dockerContainers
              /\ unhandled' = (unhandled \/ ~done)
              /\ pendingStart' = pendingStart \ {s}
              /\ upd' = [upd EXCEPT ![s.pass].start =
                                       IF done THEN "ok" ELSE "failed"]
    /\ UNCHANGED <<images, nextId, pc, passNo, outcome, containers, idx,
                   chk, evals, log>>

\* lines 89-92 and 37-40: remove the old container
Remove(p) ==
    /\ pc[p] = "remove"
    /\ \E ok \in Answers(CanRemove(U(p).oldContainerName)) :
          LET done == ok /\ CanRemove(U(p).oldContainerName)
          IN  /\ Fault(ok)
              /\ log' = [log EXCEPT ![p] = Append(@, Call("remove", U(p).oldContainerName,
                                                       "updateImage", done))]
              /\ IF done
                 THEN /\ dockerContainers' =
                           [i \in (DOMAIN dockerContainers) \ {IdOf(U(p).oldContainerName)}
                               |-> dockerContainers[i]]
                      /\ UpdStep(p, AfterUpdate(containers[p], idx[p]), "resolved", U(p))
                 ELSE /\ Failed(p, "remove")
                      /\ UNCHANGED dockerContainers
    /\ UNCHANGED <<images, nextId, pendingStart, unhandled, passNo,
                   containers, chk, evals>>

\* lines 94-98: the rollback rename, inside catch: its error rejects updateImage
Rollback(p) ==
    /\ pc[p] = "rollback"
    /\ \E ok \in Answers(CanRename(U(p).oldContainerName, U(p).targetContainerName)) :
          LET done == ok /\ CanRename(U(p).oldContainerName, U(p).targetContainerName)
          IN  /\ Fault(ok)
              /\ log' = [log EXCEPT ![p] = Append(@, Call("rename", U(p).oldContainerName,
                                                       "updateImage", done))]
              /\ IF done
                 THEN /\ dockerContainers' = [dockerContainers EXCEPT
                              ![IdOf(U(p).oldContainerName)].Name = U(p).targetContainerName]
                      /\ UpdStep(p, AfterUpdate(containers[p], idx[p]), "resolved", U(p))
                 ELSE /\ UpdStep(p, "idle", "rejected",
                                 [U(p) EXCEPT !.failed = @ \cup {"rollback"}])
                      /\ UNCHANGED dockerContainers
    /\ UNCHANGED <<images, nextId, pendingStart, unhandled, passNo,
                   containers, chk, evals>>

----------------------------------------------------------------------------

checkForUpdates == Tick \/ \E p \in Passes : ListContainers(p)

checkIfImageNeedsUpdate == \E p \in Passes : ChkInspect(p) \/ ImgInspect(p)

getRemoteImageId == \E p \in Passes : Pull(p) \/ onFinished(p)

updateImage ==
    \E p \in Passes :
        UpdInspect(p) \/ Rename(p) \/ Create(p) \/ Stop(p) \/ Remove(p) \/ Rollback(p)

Next ==
    \/ checkForUpdates
    \/ checkIfImageNeedsUpdate
    \/ getRemoteImageId
    \/ updateImage
    \/ StartSettles

Spec == Init /\ [][Next]_vars

----------------------------------------------------------------------------
(* Properties *)

\* the passes in which updateImage was called
Frames == {p \in Passes : upd[p].targetContainerName # <<>>}
OldId(p) == upd[p].containerData.Id
Evals(p) == {evals[p][k] : k \in 1..Len(evals[p])}
AllEvals == UNION {Evals(p) : p \in Passes}
Calls(p) == {log[p][k] : k \in 1..Len(log[p])}
SoftPull == {"updated", "unchanged", "notFound", "authRequired"}

\* C1: a replace whose engine calls all succeeded, once it and the start it
\* issued have finished, leaves exactly one container named targetName, none
\* named tempName; the one named targetName is the new container, created from
\* the inspected image reference, and running.  Checked at the step in which the
\* later of the two (the replace, its start) finishes.
C1_Finished(p) ==
    /\ p \in Frames
    /\ upd[p].ended /\ upd[p].failed = {} /\ upd[p].start = "ok"

C1_Post(p) ==
    /\ ByName(upd[p].targetContainerName) = {upd[p].newC}
    /\ ByName(TempName(upd[p].targetContainerName)) = {}
    /\ upd[p].newC # OldId(p)
    /\ dockerContainers[upd[p].newC].Image = upd[p].containerData.Config.Image
    /\ dockerContainers[upd[p].newC].Running

C1_SuccessfulReplace ==
    [][\A p \in Passes : (~C1_Finished(p) /\ C1_Finished(p)') => C1_Post(p)']_vars

\* C2: when createContainer fails after the first rename succeeded, and the
\* rollback rename succeeds, replace ends with exactly one container named
\* targetName, the original one (same id, same image id), still running, and
\* none named tempName.  Checked at the step in which replace ends.
C2_Ended(p) == upd[p].ended /\ upd[p].failed = {"create"}

C2_Post(p) ==
    /\ ByName(upd[p].targetContainerName) = {OldId(p)}
    /\ dockerContainers[OldId(p)].ImageId = upd[p].containerData.Image
    /\ dockerContainers[OldId(p)].Running
    /\ ByName(TempName(upd[p].targetContainerName)) = {}

C2_CreateFailureRestores ==
    [][\A p \in Passes : (~C2_Ended(p) /\ C2_Ended(p)') => C2_Post(p)']_vars

\* C3: when the start of the new container fails after rename, create and stop
\* succeeded, then once replace and the start attempt have finished exactly one
\* container is named targetName, the original one restored from tempName, none
\* is named tempName, and the original container has not been removed.  Checked
\* at the step in which the later of the two finishes.
C3_Finished(p) == upd[p].ended /\ upd[p].start = "failed"

C3_Post(p) ==
    /\ OldId(p) \in DOMAIN dockerContainers
    /\ ByName(upd[p].targetContainerName) = {OldId(p)}
    /\ ByName(TempName(upd[p].targetContainerName)) = {}

C3_StartFailureRestores ==
    [][\A p \in Passes : (~C3_Finished(p) /\ C3_Finished(p)') => C3_Post(p)']_vars

\* C4: with the container inspect succeeding and the pull answering updated,
\* unchanged, 404 or 401, the verdict is drift exactly when the engine holds a
\* local image under the reference whose id differs from the container's image
\* id; in particular it is no-update when no local image exists, whatever the
\* pull answered.
C4_DriftIffLocalImageDiffers ==
    \A e \in AllEvals :
        (e.inspectOk /\ e.pull \in SoftPull) =>
            (e.isUpdated <=> (e.engineImage # NoImage /\ e.engineImage # e.containerImageId))

\* C5: every engine error of the container inspect or of the local image
\* inspect makes the verdict drift.
C5_InspectErrorsGiveDrift ==
    \A e \in AllEvals : (~e.inspectOk \/ e.imgRes = "error") => e.isUpdated

\* C6: in one pass at most one replace is invoked, for the first container in
\* listing order whose verdict was drift, and the pass makes no engine call for
\* a container listed after it.
C6_OnePass(p) ==
    LET invoked == {k \in 1..Len(log[p]) :
                        log[p][k].by = "updateImage" /\ log[p][k].op = "inspect"}
        n == Len(evals[p])
    IN  /\ Cardinality(invoked) <= 1
        /\ n <= Len(containers[p])
        /\ \A j \in 1..n : evals[p][j].name = StrippedName(containers[p][j])
        /\ \A j \in 1..n : j < n => ~evals[p][j].isUpdated
        /\ invoked # {} =>
              /\ evals[p][n].isUpdated
              /\ p \in Frames
              /\ U(p).targetContainerName = StrippedName(containers[p][n])
              /\ \A k \in 1..Len(log[p]) : \A i \in invoked :
                     k > i => log[p][k].by = "updateImage"
              /\ \A c \in Calls(p) : \A j \in (n + 1)..Len(containers[p]) :
                     /\ c.arg # StrippedName(containers[p][j])
                     /\ c.arg # TempName(StrippedName(containers[p][j]))
              /\ \A c \in Calls(p) : c.op \in Mutations =>
                     c.arg \in {U(p).targetContainerName, U(p).oldContainerName}

C6_OneReplacePerPass == \A p \in Passes : C6_OnePass(p)

C6_Witness ==
    \E p \in Passes :
        /\ pc[p] = "idle" /\ outcome[p] = "resolved"
        /\ Len(containers[p]) = 2 /\ Len(evals[p]) = 1
        /\ p \in Frames /\ U(p).ended /\ U(p).failed = {}
        /\ \E i \in DOMAIN dockerContainers :
              /\ dockerContainers[i].Running
              /\ dockerContainers[i].Name = StrippedName(containers[p][2])

\* C7: no two passes run at the same time, and no tick starts a pass while the
\* replace of an earlier pass or an engine call that replace issued is
\* unfinished: at most one pass is active, and while it is, no engine call of
\* another pass is in flight.
C7_NoOverlap ==
    /\ Cardinality(Active) <= 1
    /\ \A p \in Active : \A s \in pendingStart : s.pass = p

\* C8: a pass that sees no drift (every local image id equals the container's
\* image id, no engine call fails) issues no container mutation; and the calls
\* made by checkIfImageNeedsUpdate and getRemoteImageId are never mutations.
C8_NoDriftNoMutation ==
    \A p \in Passes :
        /\ ( /\ \A c \in Calls(p) : c.ok
             /\ \A e \in Evals(p) : e.imgRes = "ok" /\ e.engineImage = e.containerImageId )
           => \A c \in Calls(p) : c.op \notin Mutations
        /\ \A c \in Calls(p) :
              c.by \in {"checkIfImageNeedsUpdate", "getRemoteImageId"} =>
                  c.op \in {"inspect", "pull", "imageInspect"}

\* a run that ended with both containers evaluated, nothing drifted, nothing failed
C8_QuietRun(p) ==
    /\ pc[p] = "idle" /\ outcome[p] = "resolved"
    /\ Len(evals[p]) = 2
    /\ \A c \in Calls(p) : c.ok
    /\ \A e \in Evals(p) : e.imgRes = "ok" /\ e.engineImage = e.containerImageId

C8_Witness ==
    /\ C8_QuietRun(1) /\ C8_QuietRun(2)
    /\ dockerContainers = InitContainers

\* C9: whatever engine calls fail, the promise of checkForUpdates never rejects
\* and no engine-call rejection is left unhandled.
C9_NoErrorEscapes ==
    /\ \A p \in Passes : outcome[p] # "rejected"
    /\ ~unhandled

\* C10: the payload given to createContainer has name = targetName, Image = the
\* old container's image reference, and the old container's runtime
\* configuration in every component: environment, labels, port bindings, mounts.
C10_PayloadKeepsRuntimeConfig ==
    \A p \in Frames :
        "Image" \in DOMAIN upd[p].createContainerPayload =>
            LET pl == upd[p].createContainerPayload
                old == upd[p].containerData
            IN  /\ pl.name = upd[p].targetContainerName
                /\ pl.Image = old.Config.Image
                /\ pl.Env = old.Config.Env
                /\ pl.Labels = old.Config.Labels
                /\ pl.HostConfig = old.HostConfig

\* the rollback rename of pass p: the rename of oldContainerName in its log
RollbackCalls(p) == {c \in Calls(p) : c.op = "rename" /\ p \in Frames
                                       /\ c.arg = U(p).oldContainerName}

\* C11: whenever the rollback rename itself fails, replace ends with a container
\* named tempName and none named targetName, whichever step's failure triggered
\* the rollback.  Checked at the step in which replace ends.
C11_Ended(p) == upd[p].ended /\ "rollback" \in upd[p].failed

C11_Post(p) ==
    /\ ByName(upd[p].oldContainerName) # {}
    /\ ByName(upd[p].targetContainerName) = {}

C11_RollbackFailureState ==
    [][\A p \in Passes : (~C11_Ended(p) /\ C11_Ended(p)') => C11_Post(p)']_vars

\* C12: the steps of one replace run strictly one after the other; the remove of
\* the old container is issued only after the start of the new one has returned
\* successfully, so the old container exists as long as the new one is not
\* confirmed started.
C12_RemoveAfterStartConfirmed ==
    \A p \in Frames :
        /\ pc[p] = "remove" => upd[p].start = "ok"
        /\ (upd[p].newC # 0 /\ upd[p].start # "ok") =>
              OldId(p) \in DOMAIN dockerContainers

\* C13: when the stop of the renamed old container fails after rename and create
\* succeeded, the rollback renames tempName back: replace ends with the original
\* container named targetName and no container named tempName.  Checked at the
\* step in which replace ends.
C13_Ended(p) == upd[p].ended /\ "stop" \in upd[p].failed

C13_Post(p) ==
    /\ ByName(upd[p].targetContainerName) = {OldId(p)}
    /\ ByName(upd[p].oldContainerName) = {}

C13_StopFailureRestores ==
    [][\A p \in Passes : (~C13_Ended(p) /\ C13_Ended(p)') => C13_Post(p)']_vars

\* C14: when the remove of the old container fails after the new container was
\* created and started, no rollback rename of tempName to targetName is
\* attempted and the new container stays under targetName.
C14_RemoveFailureNoRollback ==
    \A p \in Frames :
        "remove" \in upd[p].failed =>
            /\ pc[p] # "rollback"
            /\ RollbackCalls(p) = {}
            /\ ByName(upd[p].targetContainerName) = {upd[p].newC}

\* C15: when the first rename (target to tempName) fails, replace aborts: no
\* further engine call is issued, in particular no rollback rename, and the
\* engine's containers are unchanged.
C15_FirstRenameFailureAborts ==
    \A p \in Frames :
        "rename" \in upd[p].failed =>
            /\ pc[p] # "rollback"
            /\ log[p][Len(log[p])].op = "rename"
            /\ log[p][Len(log[p])].arg = upd[p].targetContainerName

\* C16 as stated: a hard pull error (neither 401 nor 404) does not abort the
\* detection: the local image inspect is still made and the verdict is the one
\* of the local comparison, no-update when the image ids are equal.
C16_HardPullErrorSwallowed ==
    \A e \in AllEvals :
        e.pull = "error" =>
            /\ e.imgRes # "none"
            /\ e.engineImage = e.containerImageId => ~e.isUpdated

\* C16 amended: a hard pull error aborts the detection: the local image inspect
\* is not made and the verdict is drift, whatever the local image is.
C16_HardPullErrorGivesDrift ==
    /\ \A e \in AllEvals : e.pull = "error" => (e.imgRes = "none" /\ e.isUpdated)
    /\ \A p \in Passes : \A k \in 1..Len(log[p]) :
          (log[p][k].op = "pull" /\ ~log[p][k].ok /\ k < Len(log[p])) =>
              log[p][k + 1].op # "imageInspect"

C16_Witness ==
    \E e \in AllEvals : /\ e.pull = "error"
                         /\ e.engineImage = e.containerImageId
                         /\ e.isUpdated

\* C17: the old container and the new container made for the same name are
\* never both running, and the start of the new container is issued only after
\* the stop of the old one has returned successfully.
C17_OldAndNewNeverBothRunning ==
    /\ \A p \in Frames :
          ( /\ upd[p].newC \in DOMAIN dockerContainers
            /\ OldId(p) \in DOMAIN dockerContainers ) =>
              ~( /\ dockerContainers[upd[p].newC].Running
                 /\ dockerContainers[OldId(p)].Running )
    /\ \A s \in pendingStart :
          OldId(s.pass) \in DOMAIN dockerContainers =>
              ~dockerContainers[OldId(s.pass)].Running
    /\ \A p \in Passes : \A k \in 1..Len(log[p]) :
          log[p][k].op = "start" =>
              k > 1 /\ log[p][k - 1].op = "stop" /\ log[p][k - 1].ok

\* a replace that ran beside no other pass, its remove failed: the old container
\* is still there, stopped, and the new one runs
C17_Witness ==
    /\ passNo = 1
    /\ 1 \in Frames
    /\ upd[1].newC \in DOMAIN dockerContainers
    /\ OldId(1) \in DOMAIN dockerContainers
    /\ dockerContainers[upd[1].newC].Running
    /\ ~dockerContainers[OldId(1)].Running
    /\ "remove" \in upd[1].failed

IsTempName(n) == n # <<>> /\ n[Len(n)] = "-old-temp"

\* C18: no pass invokes replace on a container whose name is a tempName left by
\* an earlier replace, so no container is ever named name-old-temp-old-temp:
\* every container name is a targetName or the tempName of one.
C18_NoReplaceOfTempName ==
    /\ \A p \in Frames : ~IsTempName(upd[p].targetContainerName)
    /\ \A i \in DOMAIN dockerContainers :
          LET n == dockerContainers[i].Name
          IN  IsTempName(n) => ~IsTempName(SubSeq(n, 1, Len(n) - 1))

====
